---- MODULE Spec2Model ----
\* Model of server/src/symetrix.ts (SymetrixMeterClient): one TCP session to a
\* Symetrix DSP, the configure sequence sent on connect, the decoding of pushed
\* '#CCCCC=VVVVV<CR>' frames, and the reconnect cycle. The sockets and timers
\* of the Node.js runtime are the environment of the client.
EXTENDS Integers, Sequences, FiniteSets, TLC

\* ---------------------------------------------------------------- bounds
MaxSockets == 2      \* socket objects alive (not yet closed) at one time
MaxNow == 1          \* the clock runs over 0..MaxNow (unix seconds)
MaxBuffer == 5       \* longest unterminated remainder kept, lifecycle runs
MaxStream == 28      \* bytes per inbound stream, codec runs

\* ---------------------------------------------------------------- values
Null == -1           \* null of `raw`, `lastEpoch`, `lastConnectEpoch`
NoSock == 0          \* null of `sock`
NoTimer == 0         \* null of `reconnectTimer`
NoError == "null"    \* null of `lastError`
NaN == -999999       \* the number NaN: outside every number the model uses

SocketIds == 1..MaxSockets
TimerIds == {1, 2, 3}
ErrorMessages == {"ECONNREFUSED"}

CR == "\r"
LF == "\n"
SP == " "
\* Bytes are written as one-character strings; 0xC2 0xA0 is the UTF-8 encoding
\* of U+00A0 (no-break space). Characters: the same strings, "NBSP" for U+00A0
\* and "FFFD" for the replacement character U+FFFD.
Digits == {"0", "1", "2", "3", "4", "5", "6", "7", "8", "9"}
WhiteSpace == {SP, LF, "NBSP"}

DigitValue(c) ==
    CASE c = "0" -> 0 [] c = "1" -> 1 [] c = "2" -> 2 [] c = "3" -> 3
      [] c = "4" -> 4 [] c = "5" -> 5 [] c = "6" -> 6 [] c = "7" -> 7
      [] c = "8" -> 8 [] c = "9" -> 9

\* ---------------------------------------------------------------- options
DEFAULT_PORT == 48631
MeterA == [id |-> "vu_program", label |-> "Program", controller |-> 9001]
MeterB == [id |-> "vu_rec", label |-> "Record", controller |-> 9002]

\* What index.ts passes with no environment overrides: quietMode and echoMode
\* take the constructor's defaults, interval 200 ms, threshold 50.
OptDefault ==
    [meters |-> <<MeterA, MeterB>>, quietMode |-> TRUE, echoMode |-> FALSE,
     pushIntervalMs |-> 200, hasThreshold |-> TRUE, pushThresholdMeter |-> 50,
     port |-> DEFAULT_PORT]

\* Every optional command switched off: quietMode false, echoMode true, a
\* falsy interval (0, as DSP_METER_PUSH_INTERVAL_MS=0 gives), no threshold.
OptBare ==
    [meters |-> <<MeterA>>, quietMode |-> FALSE, echoMode |-> TRUE,
     pushIntervalMs |-> 0, hasThreshold |-> FALSE, pushThresholdMeter |-> 0,
     port |-> DEFAULT_PORT]

\* An empty meter list: start() is a no-op.
OptEmpty ==
    [meters |-> <<>>, quietMode |-> TRUE, echoMode |-> FALSE,
     pushIntervalMs |-> 200, hasThreshold |-> TRUE, pushThresholdMeter |-> 50,
     port |-> DEFAULT_PORT]

\* Ids that are strings of digits, as a meter map with "id": 10 and "id": 2
\* gives (index.ts makes each id a string).
MeterTen == [id |-> "10", label |-> "Ten", controller |-> 9001]
MeterTwo == [id |-> "2", label |-> "Two", controller |-> 9002]

OptNumeric ==
    [meters |-> <<MeterTen, MeterTwo>>, quietMode |-> TRUE, echoMode |-> FALSE,
     pushIntervalMs |-> 200, hasThreshold |-> TRUE, pushThresholdMeter |-> 50,
     port |-> DEFAULT_PORT]

OptionSets == {OptDefault, OptBare, OptEmpty}

\* Thresholds as DSP_METER_PUSH_THRESHOLD gives them through Number(): below
\* the range (-5), above it (70000), and NaN (a value that is not a number,
\* "abc"); typeof NaN is "number".
OptThreshold(t) ==
    [meters |-> <<MeterA>>, quietMode |-> TRUE, echoMode |-> FALSE,
     pushIntervalMs |-> 200, hasThreshold |-> TRUE, pushThresholdMeter |-> t,
     port |-> DEFAULT_PORT]

Thresholds == {-5, 70000, NaN}

\* Two definitions with distinct ids and the same controller number.
MeterFirst == [id |-> "vu_first", label |-> "First", controller |-> 9001]
MeterLast == [id |-> "vu_last", label |-> "Last", controller |-> 9001]

OptDuplicate ==
    [meters |-> <<MeterFirst, MeterLast>>, quietMode |-> TRUE, echoMode |-> FALSE,
     pushIntervalMs |-> 200, hasThreshold |-> TRUE, pushThresholdMeter |-> 50,
     port |-> DEFAULT_PORT]

\* The clients of the configuration runs.
ConfigOptionSets ==
    {OptDefault, OptBare, OptDuplicate} \cup {OptThreshold(t) : t \in Thresholds}

\* The clients of the snapshot runs.
SnapOptionSets == {OptDefault, OptNumeric, OptEmpty}

\* ---------------------------------------------------------------- loader input
\* Values JSON.parse gives, as far as String() and Number() tell them apart:
\* a missing property (or null), a string, a number, a plain object, and an
\* object whose toString is not a function ({"toString": 1}), which String()
\* and Number() cannot convert.
Infinity == 999999   \* the number Infinity (JSON 1e999)

JMissing == [t |-> "missing", s |-> "", n |-> 0]
JString(s) == [t |-> "string", s |-> s, n |-> 0]
JNumber(n) == [t |-> "number", s |-> "", n |-> n]
JObject == [t |-> "object", s |-> "", n |-> 0]
JUnprintable == [t |-> "unprintable", s |-> "", n |-> 0]

\* String(x) and Number(x) throw a TypeError for x
ConversionThrows(x) == x.t = "unprintable"

\* String(x ?? "")
StringOf(x) ==
    CASE x.t = "missing" -> ""
      [] x.t = "string" -> x.s
      [] x.t = "number" -> IF x.n = NaN THEN "NaN"
                           ELSE IF x.n = Infinity THEN "Infinity"
                           ELSE ToString(x.n)
      [] OTHER -> "[object Object]"

\* Number(s) of the strings the inputs hold: the empty string is 0, white
\* space around a numeral is dropped, anything else is NaN.
NumberOfString(s) ==
    CASE s = "" -> 0
      [] s = "9001" -> 9001
      [] s = " 9002 " -> 9002
      [] OTHER -> NaN

\* Number(x ?? NaN)
NumberOf(x) ==
    CASE x.t = "missing" -> NaN
      [] x.t = "string" -> NumberOfString(x.s)
      [] x.t = "number" -> x.n
      [] OTHER -> NaN

\* Number.isFinite(n)
IsFinite(n) == n \notin {NaN, Infinity}

\* Entries of a meter list in DSP_METER_MAP_JSON. An entry that is null or
\* not an object has none of the three properties.
Entry(id, label, controller) == [id |-> id, label |-> label, controller |-> controller]

EntryA == Entry(JString("vu_program"), JString("Program"), JNumber(9001))
EntryB == Entry(JString("vu_rec"), JString("Record"), JNumber(9002))
EntryTen == Entry(JNumber(10), JString("Ten"), JString("9001"))
EntryNull == Entry(JMissing, JMissing, JMissing)
EntryNoLabel == Entry(JString("vu_rec"), JString(""), JNumber(9002))
EntryNoController == Entry(JString("vu_aux"), JString("Aux"), JMissing)
EntryTextController == Entry(JString("vu_aux"), JString("Aux"), JString("abc"))
EntryHugeController == Entry(JString("vu_aux"), JString("Aux"), JNumber(Infinity))
EntryObjectController == Entry(JString("vu_aux"), JString("Aux"), JObject)
EntryUnprintable == Entry(JUnprintable, JString("Aux"), JNumber(9002))

\* A value of the parsed meter map: an array of entries, or something else.
JArray(items) == [isArray |-> TRUE, items |-> items]
JOther == [isArray |-> FALSE, items |-> <<>>]

\* DSP_METER_MAP_JSON: unset (or empty), text JSON.parse rejects, a value
\* that is no object (null, 5), or an object.
MapUnset == [t |-> "unset", map |-> <<>>]
MapMalformed == [t |-> "malformed", map |-> <<>>]
MapScalar == [t |-> "scalar", map |-> <<>>]
MapObject(map) == [t |-> "object", map |-> map]

MapMixed ==
    MapObject([k \in {"aec"} |->
        JArray(<<EntryNull, EntryTen, EntryNoLabel, EntryNoController,
                 EntryTextController, EntryHugeController,
                 EntryObjectController>>)])

MeterMapJsons ==
    { MapUnset, MapMalformed, MapScalar,
      MapObject(<<>>),
      MapObject([k \in {"aec"} |-> JOther]),
      MapObject([k \in {"aec"} |-> JArray(<<>>)]),
      MapObject([k \in {"aec"} |-> JArray(<<EntryA, EntryB>>)]),
      MapMixed,
      MapObject([k \in {"aec"} |->
          JArray(<<EntryNull, EntryNoLabel, EntryTextController>>)]),
      MapObject([k \in {"aec"} |-> JArray(<<EntryA, EntryUnprintable>>)]),
      MapObject([k \in {"studio"} |-> JArray(<<EntryA>>)]),
      MapObject([k \in {"aec", "studio"} |->
          IF k = "aec" THEN JArray(<<EntryA>>)
          ELSE JArray(<<EntryUnprintable>>)]) }

\* Entries of DSP_TARGETS_JSON.
Target(id, name, ip, disabled) ==
    [id |-> id, name |-> name, ip |-> ip, disabled |-> disabled]

TargetAec == Target(JString("aec"), JString("Engineering"), JString("10.0.0.5"), FALSE)
TargetAecDisabled == Target(JString("aec"), JString("Engineering"), JString("10.0.0.5"), TRUE)
TargetAecNoIp == Target(JString("aec"), JString("Engineering"), JMissing, FALSE)
TargetStudio == Target(JString("studio"), JString("Studio"), JString("10.0.0.6"), FALSE)

\* DSP_TARGETS_JSON: unset, text JSON.parse rejects, a value that is no
\* array, or an array; at most one entry is the target "aec".
TargetsUnset == [t |-> "unset", items |-> <<>>]
TargetsMalformed == [t |-> "malformed", items |-> <<>>]
TargetsScalar == [t |-> "scalar", items |-> <<>>]
TargetsArray(items) == [t |-> "array", items |-> items]

TargetsJsons ==
    { TargetsUnset, TargetsMalformed, TargetsScalar,
      TargetsArray(<<TargetAec>>),
      TargetsArray(<<TargetStudio, TargetAecDisabled>>),
      TargetsArray(<<TargetAecNoIp>>),
      TargetsArray(<<TargetStudio>>) }

\* loadDspTargets()
TargetOf(x) ==
    [id |-> StringOf(x.id), name |-> StringOf(x.name), ip |-> StringOf(x.ip),
     disabled |-> x.disabled]

KeepsTarget(t) == t.id # "" /\ t.name # "" /\ t.ip # ""

loadDspTargets(raw) ==
    IF raw.t # "array" THEN <<>>
    ELSE IF \E i \in 1..Len(raw.items) :
                \E x \in {raw.items[i].id, raw.items[i].name, raw.items[i].ip} :
                    ConversionThrows(x)
         THEN <<>>
         ELSE SelectSeq([i \in 1..Len(raw.items) |-> TargetOf(raw.items[i])],
                        KeepsTarget)

\* loadMeterMap()
MeterOf(m) ==
    [id |-> StringOf(m.id), label |-> StringOf(m.label),
     controller |-> NumberOf(m.controller)]

\* Mutant of KeepsMeter: the controller number is not looked at.
KeepsMeterAnyController(m) == m.id # "" /\ m.label # ""

\* .filter((m) => m.id && m.label && Number.isFinite(m.controller))
KeepsMeter(m) == m.id # "" /\ m.label # "" /\ IsFinite(m.controller)

EntryThrows(m) ==
    ConversionThrows(m.id) \/ ConversionThrows(m.label) \/ ConversionThrows(m.controller)

loadMeterMap(raw) ==
    IF raw.t # "object" THEN <<>>
    ELSE IF \E k \in DOMAIN raw.map :
                /\ raw.map[k].isArray
                /\ \E i \in 1..Len(raw.map[k].items) : EntryThrows(raw.map[k].items[i])
         THEN <<>>
         ELSE [k \in {j \in DOMAIN raw.map : raw.map[j].isArray} |->
                  SelectSeq([i \in 1..Len(raw.map[k].items) |->
                                 MeterOf(raw.map[k].items[i])],
                            KeepsMeter)]

\* meterMap[t.id] || []
MetersOf(meterMap, id) == IF id \in DOMAIN meterMap THEN meterMap[id] ELSE <<>>

\* The options startMeterClients() passes for a meter list.
OptOf(meters) == [OptDefault EXCEPT !.meters = meters]

\* The fields the model's client has while no client object exists.
OptNone == OptOf(<<>>)

VARIABLES
    opt,               \* this.opt (immutable after construction)
    sock,              \* this.sock: a socket id or NoSock
    buffer,            \* this.buffer: sequence of characters
    values,            \* this.values: meter id -> MeterValue
    connected,         \* this.connected
    lastConnectEpoch,  \* this.lastConnectEpoch
    lastError,         \* this.lastError
    reconnectTimer,    \* this.reconnectTimer: a timer id or NoTimer
    st,                \* runtime: state of each net.Socket
    written,           \* runtime: what was written to each socket that exists
    timers,            \* runtime: the armed timers
    now,               \* runtime: nowEpoch()
    stream,            \* codec runs: the bytes the device sends
    pos,               \* codec runs: how many of them were delivered
    decoded,           \* codec runs: the pairs decoded so far
    ev,                \* history: the last call or event handled (with the
                       \* chunk of a data event in lifecycle runs; in codec
                       \* runs the chunk is stream[pos+1..pos'])
    stopped,           \* history: stop() was called and start() not since
    discarded,         \* history: sockets destroyed by stop(), not yet closed
    snap,              \* reader: the meters array of the object snapshot()
                       \* returned last, references to the client's records
    seen,              \* history: those records as they were at the return
    raised,            \* history: a call or a callback ended by an exception
    env,               \* index.ts: DSP_TARGETS_JSON and DSP_METER_MAP_JSON
    meterClients,      \* index.ts: the target ids that have a client
    pc                 \* index.ts: "load" until startMeterClients() has run

vars == <<opt, sock, buffer, values, connected, lastConnectEpoch, lastError,
          reconnectTimer, st, written, timers, now, stream, pos, decoded,
          ev, stopped, discarded, snap, seen,
          raised, env, meterClients, pc>>

clientVars == <<sock, buffer, values, connected, lastConnectEpoch, lastError,
                reconnectTimer>>

\* Runs of the class alone: the caller constructs the client itself, and
\* index.ts plays no part.
ClassAlone ==
    /\ env = [DSP_TARGETS_JSON |-> TargetsUnset, DSP_METER_MAP_JSON |-> MapUnset]
    /\ meterClients = {}
    /\ pc = "serving"

\* ---------------------------------------------------------------- codec
\* chunk.toString("utf8"): each data event's bytes are decoded on their own,
\* so a multi-byte character cut by a chunk boundary decodes to U+FFFD on
\* both sides of the boundary.
RECURSIVE Utf8Decode(_)
Utf8Decode(bytes) ==
    IF bytes = <<>> THEN <<>>
    ELSE IF bytes[1] = "C2"
         THEN IF Len(bytes) >= 2 /\ bytes[2] = "A0"
              THEN <<"NBSP">> \o Utf8Decode(SubSeq(bytes, 3, Len(bytes)))
              ELSE <<"FFFD">> \o Utf8Decode(Tail(bytes))
    ELSE IF bytes[1] = "A0"
         THEN <<"FFFD">> \o Utf8Decode(Tail(bytes))
    ELSE <<bytes[1]>> \o Utf8Decode(Tail(bytes))

\* String.prototype.split("\r"): the segments between carriage returns; the
\* last one is what follows the last carriage return (all of it if none).
RECURSIVE SplitFrom(_, _, _)
SplitFrom(text, i, start) ==
    IF i > Len(text) THEN <<SubSeq(text, start, Len(text))>>
    ELSE IF text[i] = CR
         THEN <<SubSeq(text, start, i - 1)>> \o SplitFrom(text, i + 1, i + 1)
         ELSE SplitFrom(text, i + 1, start)

SplitCR(text) == SplitFrom(text, 1, 1)

\* String.prototype.trim()
RECURSIVE TrimLeft(_)
TrimLeft(line) ==
    IF line # <<>> /\ line[1] \in WhiteSpace THEN TrimLeft(Tail(line)) ELSE line

RECURSIVE TrimRight(_)
TrimRight(line) ==
    IF line # <<>> /\ line[Len(line)] \in WhiteSpace
    THEN TrimRight(SubSeq(line, 1, Len(line) - 1))
    ELSE line

Trim(line) == TrimRight(TrimLeft(line))

\* Number("ddddd") of a string of decimal digits
RECURSIVE DecimalValue(_)
DecimalValue(ds) ==
    IF ds = <<>> THEN 0
    ELSE 10 * DecimalValue(SubSeq(ds, 1, Len(ds) - 1)) + DigitValue(ds[Len(ds)])

\* Mutant of MatchesPushLine: the pattern without its end anchor.
MatchesPushLineNoAnchor(line) ==
    /\ Len(line) >= 12
    /\ line[1] = "#"
    /\ \A i \in 2..6 : line[i] \in Digits
    /\ line[7] = "="
    /\ \A i \in 8..12 : line[i] \in Digits

\* line.match(/^#(\d{5})=(\d{5})$/)
MatchesPushLine(line) ==
    /\ Len(line) = 12
    /\ line[1] = "#"
    /\ \A i \in 2..6 : line[i] \in Digits
    /\ line[7] = "="
    /\ \A i \in 8..12 : line[i] \in Digits

\* Mutant of parsePushLine: the value group read one character late.
parsePushLineLate(line) ==
    IF ~MatchesPushLine(line)
    THEN [ok |-> FALSE, controller |-> 0, value |-> 0]
    ELSE [ok |-> TRUE,
          controller |-> DecimalValue(SubSeq(line, 2, 6)),
          value |-> DecimalValue(SubSeq(line, 9, 12))]

\* parsePushLine: null is [ok |-> FALSE, ...]
parsePushLine(line) ==
    IF ~MatchesPushLine(line)
    THEN [ok |-> FALSE, controller |-> 0, value |-> 0]
    ELSE [ok |-> TRUE,
          controller |-> DecimalValue(SubSeq(line, 2, 6)),
          value |-> DecimalValue(SubSeq(line, 8, 12))]

\* The constructor's loop: values[m.id] = {..., raw: null, lastEpoch: null};
\* for a repeated id the last definition's record stays.
InitialValues(meters) ==
    [i \in {meters[k].id : k \in 1..Len(meters)} |->
        LET last == CHOOSE k \in 1..Len(meters) :
                        /\ meters[k].id = i
                        /\ \A j \in (k + 1)..Len(meters) : meters[j].id # i
        IN [id |-> i, label |-> meters[last].label,
            controller |-> meters[last].controller,
            raw |-> Null, lastEpoch |-> Null]]

\* Mutant of byControllerGet: the first definition's id stays for c.
byControllerGetFirst(meters, c) ==
    IF \A k \in 1..Len(meters) : meters[k].controller # c THEN ""
    ELSE LET first == CHOOSE k \in 1..Len(meters) :
                          /\ meters[k].controller = c
                          /\ \A j \in 1..(k - 1) : meters[j].controller # c
         IN meters[first].id

\* byController.get(c): the id set last for c by the constructor's loop, ""
\* (falsy, like undefined) when there is none.
byControllerGet(meters, c) ==
    IF \A k \in 1..Len(meters) : meters[k].controller # c THEN ""
    ELSE LET last == CHOOSE k \in 1..Len(meters) :
                         /\ meters[k].controller = c
                         /\ \A j \in (k + 1)..Len(meters) : meters[j].controller # c
         IN meters[last].id

\* Mutant of ProcessLine: the value is stored without its timestamp.
ProcessLineRawOnly(vals, meters, rawLine, t) ==
    LET line == Trim(rawLine)
        parsed == parsePushLine(line)
        id == byControllerGet(meters, parsed.controller)
    IN IF line = <<>> THEN vals
       ELSE IF ~parsed.ok THEN vals
       ELSE IF id = "" THEN vals
       ELSE [vals EXCEPT ![id].raw = parsed.value]

\* One turn of the data handler's loop over a terminated segment.
ProcessLine(vals, meters, rawLine, t) ==
    LET line == Trim(rawLine)
        parsed == parsePushLine(line)
        id == byControllerGet(meters, parsed.controller)
    IN IF line = <<>> THEN vals
       ELSE IF ~parsed.ok THEN vals
       ELSE IF id = "" THEN vals
       ELSE [vals EXCEPT ![id].raw = parsed.value, ![id].lastEpoch = t]

\* Mutant of ProcessLines: a frame of a controller no meter has ends the loop.
RECURSIVE ProcessLinesUnknownEnds(_, _, _, _)
ProcessLinesUnknownEnds(vals, meters, lines, t) ==
    IF lines = <<>> THEN vals
    ELSE LET parsed == parsePushLine(Trim(Head(lines)))
         IN IF parsed.ok /\ byControllerGet(meters, parsed.controller) = ""
            THEN vals
            ELSE ProcessLinesUnknownEnds(
                     ProcessLine(vals, meters, Head(lines), t), meters,
                     Tail(lines), t)

\* for (const rawLine of parts) { ... }
RECURSIVE ProcessLines(_, _, _, _)
ProcessLines(vals, meters, lines, t) ==
    IF lines = <<>> THEN vals
    ELSE ProcessLines(ProcessLine(vals, meters, Head(lines), t), meters,
                      Tail(lines), t)

\* The (controller, value) pairs parsePushLine returns for the segments.
RECURSIVE ParsedPairs(_)
ParsedPairs(lines) ==
    IF lines = <<>> THEN <<>>
    ELSE LET parsed == parsePushLine(Trim(Head(lines)))
         IN (IF parsed.ok THEN <<<<parsed.controller, parsed.value>>>> ELSE <<>>)
            \o ParsedPairs(Tail(lines))

\* this.buffer += chunk.toString("utf8"); parts = this.buffer.split("\r")
Parts(buf, chunk) == SplitCR(buf \o Utf8Decode(chunk))
Front(parts) == SubSeq(parts, 1, Len(parts) - 1)

\* ---------------------------------------------------------------- runtime
\* A net.Socket is "connecting" from sock.connect() to its connect event,
\* "open" from then on, "closing" once destroyed or ended (its close event
\* is still to come, and no other event will), and "none" when it does not
\* exist or has had its close event.
Live == {"connecting", "open"}
LiveSockets(sockets) == {s \in SocketIds : sockets[s] \in Live}
FreeSockets(sockets) == {s \in SocketIds : sockets[s] = "none"}

\* Mutant of SockConnectThrows: sock.connect() throws for every port.
SockConnectThrowsAlways(port) == TRUE

\* sock.connect(port, host) throws synchronously (ERR_SOCKET_BAD_PORT) when
\* the port is not in 0..65535; every other failure comes as an error event.
SockConnectThrows(port) == port \notin 0..65535

\* new net.Socket(): a socket object not in use
NewSocket(sockets) ==
    CHOOSE s \in FreeSockets(sockets) : \A r \in FreeSockets(sockets) : s <= r

\* setTimeout(): a timer handle not in use
NewTimer(tm) ==
    CHOOSE t \in TimerIds \ tm : \A r \in TimerIds \ tm : t <= r

\* Mutant of Destroy: the socket is dropped but not destroyed.
DestroyNothing(sockets, s) == sockets

\* sock?.destroy(): a live socket stops all I/O and will emit close; a
\* destroyed or closed one is left as it is.
Destroy(sockets, s) ==
    IF s # NoSock /\ sockets[s] \in Live
    THEN [sockets EXCEPT ![s] = "closing"]
    ELSE sockets

\* Mutant of ClearTimeout: the timer is left armed.
ClearTimeoutNothing(tm, rt) == tm

\* if (this.reconnectTimer) clearTimeout(this.reconnectTimer)
ClearTimeout(tm, rt) == IF rt # NoTimer THEN tm \ {rt} ELSE tm

\* Mutant of scheduleReconnect: no timer is armed.
scheduleReconnectNever(rt, tm) == [reconnectTimer |-> rt, timers |-> tm]

\* Mutant of scheduleReconnect: a timer is armed even when one is pending.
scheduleReconnectAgain(rt, tm) ==
    LET t == NewTimer(tm)
    IN [reconnectTimer |-> t, timers |-> tm \cup {t}]

\* scheduleReconnect(): arms one timer unless one is pending
scheduleReconnect(rt, tm) ==
    IF rt # NoTimer THEN [reconnectTimer |-> rt, timers |-> tm]
    ELSE LET t == NewTimer(tm)
         IN [reconnectTimer |-> t, timers |-> tm \cup {t}]

\* Mutant of send: the command is terminated by a linefeed.
sendLinefeed(w, s, cmd) ==
    IF s = NoSock THEN w
    ELSE [w EXCEPT ![s] = Append(@, [cmd |-> cmd, term |-> LF])]

\* send(cmd): this.sock?.write(cmd + "\r")
send(w, s, cmd) ==
    IF s = NoSock THEN w
    ELSE [w EXCEPT ![s] = Append(@, [cmd |-> cmd, term |-> CR])]

RECURSIVE sendAll(_, _, _)
sendAll(w, s, cmds) ==
    IF cmds = <<>> THEN w
    ELSE sendAll(send(w, s, Head(cmds)), s, Tail(cmds))

\* Math.min, Math.max: NaN when an argument is NaN
Min(a, b) == IF a = NaN \/ b = NaN THEN NaN ELSE IF a <= b THEN a ELSE b
Max(a, b) == IF a = NaN \/ b = NaN THEN NaN ELSE IF a >= b THEN a ELSE b

\* Mutant of ConfigureCommands: the per-meter PUE commands sent first.
ConfigureCommandsPueFirst(o) ==
    [k \in 1..Len(o.meters) |-> [m |-> "PUE", a |-> <<o.meters[k].controller>>]]
    \o (IF o.quietMode THEN <<[m |-> "SQ", a |-> <<1>>]>> ELSE <<>>)
    \o (IF o.echoMode = FALSE THEN <<[m |-> "EH", a |-> <<0>>]>> ELSE <<>>)
    \o <<[m |-> "PU", a |-> <<1>>]>>
    \o (IF o.pushIntervalMs # 0
        THEN <<[m |-> "PUI", a |-> <<o.pushIntervalMs>>]>> ELSE <<>>)
    \o (IF o.hasThreshold
        THEN LET t == Max(0, Min(65535, o.pushThresholdMeter))
             IN <<[m |-> "PUT", a |-> <<t, t>>]>>
        ELSE <<>>)

\* The commands the connect handler sends, in order.
ConfigureCommands(o) ==
    (IF o.quietMode THEN <<[m |-> "SQ", a |-> <<1>>]>> ELSE <<>>)
    \o (IF o.echoMode = FALSE THEN <<[m |-> "EH", a |-> <<0>>]>> ELSE <<>>)
    \o <<[m |-> "PU", a |-> <<1>>]>>
    \o (IF o.pushIntervalMs # 0
        THEN <<[m |-> "PUI", a |-> <<o.pushIntervalMs>>]>> ELSE <<>>)
    \o (IF o.hasThreshold
        THEN LET t == Max(0, Min(65535, o.pushThresholdMeter))
             IN <<[m |-> "PUT", a |-> <<t, t>>]>>
        ELSE <<>>)
    \o [k \in 1..Len(o.meters) |-> [m |-> "PUE", a |-> <<o.meters[k].controller>>]]

\* `${n}` of a number: "NaN", or the decimal digits, after "-" if negative.
RECURSIVE NaturalText(_)
NaturalText(n) ==
    IF n < 10 THEN <<CHOOSE c \in Digits : DigitValue(c) = n>>
    ELSE Append(NaturalText(n \div 10), CHOOSE c \in Digits : DigitValue(c) = n % 10)

NumberText(n) ==
    IF n = NaN THEN <<"N", "a", "N">>
    ELSE IF n < 0 THEN <<"-">> \o NaturalText(0 - n)
    ELSE NaturalText(n)

\* The mnemonics as the string literals of the connect handler spell them.
MnemonicText(m) ==
    CASE m = "SQ" -> <<"S", "Q">>
      [] m = "EH" -> <<"E", "H">>
      [] m = "PU" -> <<"P", "U">>
      [] m = "PUI" -> <<"P", "U", "I">>
      [] m = "PUT" -> <<"P", "U", "T">>
      [] m = "PUE" -> <<"P", "U", "E">>

\* The string the connect handler builds for a command: the mnemonic and
\* its arguments, each after one space.
RECURSIVE ArgumentsText(_)
ArgumentsText(a) ==
    IF a = <<>> THEN <<>>
    ELSE <<SP>> \o NumberText(Head(a)) \o ArgumentsText(Tail(a))

CommandText(c) == MnemonicText(c.m) \o ArgumentsText(c.a)

\* The string of one write: cmd + "\r" in send().
WrittenString(e) == CommandText(e.cmd) \o <<e.term>>

Event(type, s, chunk) == [type |-> type, s |-> s, chunk |-> chunk]

\* ---------------------------------------------------------------- snapshot
\* The canonical array index an id is the decimal form of, Null for an id
\* that is not one ("vu_program", "02"): the ids of the options below.
ArrayIndex(id) ==
    CASE id = "10" -> 10
      [] id = "2" -> 2
      [] OTHER -> Null

\* The ids in the order the constructor's loop first assigns them.
RECURSIVE CreationOrder(_)
CreationOrder(meters) ==
    IF meters = <<>> THEN <<>>
    ELSE LET front == CreationOrder(SubSeq(meters, 1, Len(meters) - 1))
             id == meters[Len(meters)].id
         IN IF \E k \in 1..Len(front) : front[k] = id THEN front
            ELSE Append(front, id)

\* The keys ks, all array indices, in ascending numeric order.
RECURSIVE SortIndices(_)
SortIndices(ks) ==
    IF ks = {} THEN <<>>
    ELSE LET least == CHOOSE k \in ks : \A j \in ks : ArrayIndex(k) <= ArrayIndex(j)
         IN <<least>> \o SortIndices(ks \ {least})

\* Own-property order of this.values: the keys that are array indices in
\* ascending numeric order, then the other keys in creation order.
ObjectKeys(meters) ==
    LET order == CreationOrder(meters)
        ids == {order[k] : k \in 1..Len(order)}
    IN SortIndices({i \in ids : ArrayIndex(i) # Null})
       \o SelectSeq(order, LAMBDA i : ArrayIndex(i) = Null)

\* snapshot(): a new object; meters is Object.values(this.values), a new
\* array of the client's own MeterValue objects (given here by their keys).
snapshot ==
    [connected |-> connected,
     lastConnectEpoch |-> lastConnectEpoch, lastError |-> lastError,
     meters |-> ObjectKeys(opt.meters)]

\* ---------------------------------------------------------------- client
Constructed(o) ==
    /\ opt = o
    /\ sock = NoSock
    /\ buffer = <<>>
    /\ values = InitialValues(o.meters)
    /\ connected = FALSE
    /\ lastConnectEpoch = Null
    /\ lastError = NoError
    /\ reconnectTimer = NoTimer

Init ==
    /\ \E o \in OptionSets : Constructed(o)
    /\ st = [s \in SocketIds |-> "none"]
    /\ written = [s \in SocketIds |-> <<>>]
    /\ timers = {}
    /\ now = 0
    /\ stream = <<>>
    /\ pos = 0
    /\ decoded = <<>>
    /\ ev = Event("new", NoSock, <<>>)
    /\ stopped = FALSE
    /\ discarded = {}
    /\ snap = <<>>
    /\ seen = <<>>
    /\ raised = FALSE
    /\ ClassAlone

\* Mutant of connect: the previous socket is not destroyed.
connectKeepsOld(rt, tm) ==
    LET s == NewSocket(st)
    IN /\ FreeSockets(st) # {}
       /\ timers' = ClearTimeout(tm, rt)
       /\ reconnectTimer' = NoTimer
       /\ connected' = FALSE
       /\ sock' = s
       /\ st' = [st EXCEPT ![s] = IF SockConnectThrows(opt.port)
                                  THEN "none" ELSE "connecting"]
       /\ written' = [written EXCEPT ![s] = <<>>]
       /\ raised' = (raised \/ SockConnectThrows(opt.port))

\* connect(): stop(), then a new socket with the four handlers, connecting;
\* when sock.connect() throws, the exception leaves connect() and its caller,
\* and the socket is left unconnected in this.sock.
\* rt and tm are this.reconnectTimer and the armed timers at the call.
connect(rt, tm) ==
    LET destroyed == Destroy(st, sock)
        s == NewSocket(destroyed)
    IN /\ FreeSockets(destroyed) # {}
       /\ timers' = ClearTimeout(tm, rt)
       /\ reconnectTimer' = NoTimer
       /\ connected' = FALSE
       /\ sock' = s
       /\ st' = [destroyed EXCEPT ![s] = IF SockConnectThrows(opt.port)
                                         THEN "none" ELSE "connecting"]
       /\ written' = [written EXCEPT ![s] = <<>>]
       /\ raised' = (raised \/ SockConnectThrows(opt.port))

\* Mutant of Start: connect() is called whatever the meter list.
StartUnguarded ==
    /\ connect(reconnectTimer, timers)
    /\ ev' = Event("start", NoSock, <<>>)
    /\ stopped' = FALSE
    /\ UNCHANGED <<opt, env, meterClients, pc, buffer, values, lastConnectEpoch, lastError, now,
                   stream, pos, decoded, discarded, snap, seen>>

\* start()
Start ==
    /\ IF Len(opt.meters) = 0
       THEN UNCHANGED <<sock, connected, reconnectTimer, st, written, timers,
                        raised>>
       ELSE connect(reconnectTimer, timers)
    /\ ev' = Event("start", NoSock, <<>>)
    /\ stopped' = FALSE
    /\ UNCHANGED <<opt, env, meterClients, pc, buffer, values, lastConnectEpoch, lastError, now,
                   stream, pos, decoded, discarded, snap, seen>>

\* Mutant of Stop: the meter records are reset to unknown.
StopResetsValues ==
    /\ timers' = ClearTimeout(timers, reconnectTimer)
    /\ reconnectTimer' = NoTimer
    /\ connected' = FALSE
    /\ st' = Destroy(st, sock)
    /\ sock' = NoSock
    /\ values' = InitialValues(opt.meters)
    /\ ev' = Event("stop", NoSock, <<>>)
    /\ stopped' = TRUE
    /\ discarded' = IF sock # NoSock /\ st[sock] # "none"
                    THEN discarded \cup {sock} ELSE discarded
    /\ UNCHANGED <<opt, env, meterClients, pc, buffer, lastConnectEpoch, lastError, written,
                   now, stream, pos, decoded, snap, seen,
                   raised>>

\* stop()
Stop ==
    /\ timers' = ClearTimeout(timers, reconnectTimer)
    /\ reconnectTimer' = NoTimer
    /\ connected' = FALSE
    /\ st' = Destroy(st, sock)
    /\ sock' = NoSock
    /\ ev' = Event("stop", NoSock, <<>>)
    /\ stopped' = TRUE
    /\ discarded' = IF sock # NoSock /\ st[sock] # "none"
                    THEN discarded \cup {sock} ELSE discarded
    /\ UNCHANGED <<opt, env, meterClients, pc, buffer, values, lastConnectEpoch, lastError, written,
                   now, stream, pos, decoded, snap, seen,
                   raised>>

\* sock.on("connect", ...)
OnConnect(s) ==
    /\ st[s] = "connecting"
    /\ st' = [st EXCEPT ![s] = "open"]
    /\ connected' = TRUE
    /\ lastError' = NoError
    /\ lastConnectEpoch' = now
    /\ written' = sendAll(written, sock, ConfigureCommands(opt))
    /\ ev' = Event("connect", s, <<>>)
    /\ UNCHANGED <<opt, env, meterClients, pc, sock, buffer, values, reconnectTimer, timers, now,
                   stream, pos, decoded, stopped, discarded, snap, seen,
                   raised>>

\* Mutant of OnData: the unterminated remainder is not kept.
OnDataDropsRemainder(s, chunk) ==
    /\ st[s] = "open"
    /\ \E parts \in {Parts(buffer, chunk)} :
          /\ buffer' = <<>>
          /\ values' = ProcessLines(values, opt.meters, Front(parts), now)
    /\ UNCHANGED <<opt, env, meterClients, pc, sock, connected, lastConnectEpoch, lastError,
                   reconnectTimer, st, written, timers, now, stopped,
                   discarded, snap, seen,
                   raised>>

\* sock.on("data", ...): the client's part of a data event
OnData(s, chunk) ==
    /\ st[s] = "open"
    /\ \E parts \in {Parts(buffer, chunk)} :
          /\ buffer' = parts[Len(parts)]
          /\ values' = ProcessLines(values, opt.meters, Front(parts), now)
    /\ UNCHANGED <<opt, env, meterClients, pc, sock, connected, lastConnectEpoch, lastError,
                   reconnectTimer, st, written, timers, now, stopped,
                   discarded, snap, seen,
                   raised>>

\* Mutant of OnError: the error handler clears the connected flag.
OnErrorDisconnects(s, msg) ==
    /\ st[s] \in Live
    /\ st' = [st EXCEPT ![s] = "closing"]
    /\ lastError' = msg
    /\ connected' = FALSE
    /\ ev' = Event("error", s, <<>>)
    /\ UNCHANGED <<opt, env, meterClients, pc, sock, buffer, values, lastConnectEpoch,
                   reconnectTimer, written, timers, now, stream, pos, decoded,
                   stopped, discarded, snap, seen,
                   raised>>

\* sock.on("error", ...): the runtime destroys the socket after an error
OnError(s, msg) ==
    /\ st[s] \in Live
    /\ st' = [st EXCEPT ![s] = "closing"]
    /\ lastError' = msg
    /\ ev' = Event("error", s, <<>>)
    /\ UNCHANGED <<opt, env, meterClients, pc, sock, buffer, values, connected, lastConnectEpoch,
                   reconnectTimer, written, timers, now, stream, pos, decoded,
                   stopped, discarded, snap, seen,
                   raised>>

\* The device closes the connection: no handler is registered for "end".
RemoteEnd(s) ==
    /\ st[s] = "open"
    /\ st' = [st EXCEPT ![s] = "closing"]
    /\ ev' = Event("end", s, <<>>)
    /\ UNCHANGED <<opt, env, meterClients, pc, sock, buffer, values, connected, lastConnectEpoch,
                   lastError, reconnectTimer, written, timers, now, stream,
                   pos, decoded, stopped, discarded, snap, seen,
                   raised>>

\* Mutant of OnClose: the close handler clears lastError.
OnCloseClearsError(s) ==
    LET r == scheduleReconnect(reconnectTimer, timers)
    IN /\ st[s] = "closing"
       /\ st' = [st EXCEPT ![s] = "none"]
       /\ connected' = FALSE
       /\ lastError' = NoError
       /\ reconnectTimer' = r.reconnectTimer
       /\ timers' = r.timers
       /\ ev' = Event("close", s, <<>>)
       /\ discarded' = discarded \ {s}
       /\ written' = [written EXCEPT ![s] = <<>>]
       /\ UNCHANGED <<opt, env, meterClients, pc, sock, buffer, values, lastConnectEpoch,
                      now, stream, pos, decoded, stopped, snap, seen,
                      raised>>

\* sock.on("close", ...)
OnClose(s) ==
    LET r == scheduleReconnect(reconnectTimer, timers)
    IN /\ st[s] = "closing"
       /\ st' = [st EXCEPT ![s] = "none"]
       /\ connected' = FALSE
       /\ reconnectTimer' = r.reconnectTimer
       /\ timers' = r.timers
       /\ ev' = Event("close", s, <<>>)
       /\ discarded' = discarded \ {s}
       /\ written' = [written EXCEPT ![s] = <<>>]
       /\ UNCHANGED <<opt, env, meterClients, pc, sock, buffer, values, lastConnectEpoch, lastError,
                      now, stream, pos, decoded, stopped, snap, seen,
                      raised>>

\* Mutant of TimerFire: the callback clears the timer and does not connect.
TimerFireGivesUp(t) ==
    /\ t \in timers
    /\ timers' = timers \ {t}
    /\ reconnectTimer' = NoTimer
    /\ ev' = Event("timer", NoSock, <<>>)
    /\ UNCHANGED <<opt, env, meterClients, pc, sock, buffer, values, connected, lastConnectEpoch,
                   lastError, st, written, now, stream, pos, decoded, stopped,
                   discarded, snap, seen,
                   raised>>

\* The reconnect timer's callback: this.reconnectTimer = null; this.connect()
TimerFire(t) ==
    /\ t \in timers
    /\ connect(NoTimer, timers \ {t})
    /\ ev' = Event("timer", NoSock, <<>>)
    /\ UNCHANGED <<opt, env, meterClients, pc, buffer, values, lastConnectEpoch, lastError, now,
                   stream, pos, decoded, stopped, discarded, snap, seen>>

\* Date.now() advances
Tick ==
    /\ now < MaxNow
    /\ now' = now + 1
    /\ ev' = Event("tick", NoSock, <<>>)
    /\ UNCHANGED <<opt, env, meterClients, pc, sock, buffer, values, connected, lastConnectEpoch,
                   lastError, reconnectTimer, st, written, timers, stream,
                   pos, decoded, stopped, discarded, snap, seen,
                   raised>>

\* Mutant of Snapshot: the call clears the connected flag.
SnapshotDisconnects ==
    /\ snap' = snapshot.meters
    /\ seen' = [k \in 1..Len(snapshot.meters) |-> values[snapshot.meters[k]]]
    /\ connected' = FALSE
    /\ ev' = Event("snapshot", NoSock, <<>>)
    /\ UNCHANGED <<opt, env, meterClients, pc, sock, buffer, values, lastConnectEpoch,
                   lastError, reconnectTimer, st, written, timers, now, stream,
                   pos, decoded, stopped, discarded, raised>>

\* A reader calls snapshot() and keeps the meters array it returns.
Snapshot ==
    /\ snap' = snapshot.meters
    /\ seen' = [k \in 1..Len(snapshot.meters) |-> values[snapshot.meters[k]]]
    /\ ev' = Event("snapshot", NoSock, <<>>)
    /\ UNCHANGED <<opt, env, meterClients, pc, sock, buffer, values, connected, lastConnectEpoch,
                   lastError, reconnectTimer, st, written, timers, now, stream,
                   pos, decoded, stopped, discarded, raised>>

\* ---------------------------------------------------------------- index.ts
\* startMeterClients(): for the target "aec", if the meter map has
\* definitions for it, a client is constructed with them and started. The
\* inputs hold that target at most once, so there is at most one client, the
\* one of the client variables; its port is DEFAULT_PORT, as for every client
\* of the model.
startMeterClients ==
    /\ pc = "load"
    /\ pc' = "serving"
    /\ LET targets == loadDspTargets(env.DSP_TARGETS_JSON)
           meterMap == loadMeterMap(env.DSP_METER_MAP_JSON)
           served == SelectSeq(targets,
                         LAMBDA t : /\ Len(MetersOf(meterMap, t.id)) # 0
                                    /\ t.id = "aec")
       IN IF served = <<>>
          THEN /\ meterClients' = meterClients
               /\ UNCHANGED <<opt, clientVars, st, written, timers, raised>>
          ELSE /\ opt' = OptOf(MetersOf(meterMap, "aec"))
               /\ buffer' = <<>>
               /\ values' = InitialValues(MetersOf(meterMap, "aec"))
               /\ lastConnectEpoch' = Null
               /\ lastError' = NoError
               /\ connect(reconnectTimer, timers)
               /\ meterClients' = meterClients \cup {"aec"}
    /\ ev' = Event("startMeterClients", NoSock, <<>>)
    /\ UNCHANGED <<env, now, stream, pos, decoded, stopped, discarded, snap, seen>>

\* ---------------------------------------------------------------- inputs
C9001 == <<"0", "9", "0", "0", "1">>
C9002 == <<"0", "9", "0", "0", "2">>
V32768 == <<"3", "2", "7", "6", "8">>
V65535 == <<"6", "5", "5", "3", "5">>
V00012 == <<"0", "0", "0", "1", "2">>
V99999 == <<"9", "9", "9", "9", "9">>
FrameBytes(c, v) == <<"#">> \o c \o <<"=">> \o v

\* Data events of the lifecycle runs: a whole frame for 9001, and another
\* frame for 9001 cut in two.
MainChunks ==
    { FrameBytes(C9001, V32768) \o <<CR>>,
      <<"#", "0", "9", "0", "0">>,
      <<"1", "=">> \o V00012 \o <<CR>> }

\* Protocol lines of the codec runs, as the bytes on the wire.
Tokens ==
    { FrameBytes(C9001, V32768) \o <<CR>>,
      FrameBytes(C9002, V00012) \o <<CR>>,
      FrameBytes(C9001, V00012) \o <<"C2", "A0", CR>>,
      <<SP>> \o FrameBytes(C9002, V65535) \o <<CR, LF>>,
      FrameBytes(C9001, <<"3", "2", "7", "6">>) \o <<CR>>,
      FrameBytes(C9002, V65535 \o <<"9">>) \o <<CR>>,
      FrameBytes(C9001, V99999) \o <<CR>>,
      FrameBytes(<<"0", "9", "0", "0", "x">>, V00012) \o <<CR>>,
      <<"A", "C", "K", CR>> }

\* One line, or two lines one after the other, within MaxStream bytes.
Streams ==
    {t \in Tokens : Len(t) <= MaxStream}
    \cup {p[1] \o p[2] : p \in {q \in Tokens \X Tokens :
                                       Len(q[1]) + Len(q[2]) <= MaxStream}}

\* ---------------------------------------------------------------- lifecycle runs
\* A data event of an open socket.
SockData(s, chunk) ==
    /\ OnData(s, chunk)
    /\ ev' = Event("data", s, chunk)
    /\ Len(buffer') <= MaxBuffer
    /\ UNCHANGED <<stream, pos, decoded>>

Next ==
    \/ Start
    \/ Stop
    \/ \E s \in SocketIds : OnConnect(s)
    \/ \E s \in SocketIds, chunk \in MainChunks : SockData(s, chunk)
    \/ \E s \in SocketIds, msg \in ErrorMessages : OnError(s, msg)
    \/ \E s \in SocketIds : RemoteEnd(s)
    \/ \E s \in SocketIds : OnClose(s)
    \/ \E t \in TimerIds : TimerFire(t)
    \/ Tick

Spec == Init /\ [][Next]_vars

\* ---------------------------------------------------------------- retry runs
\* The connection life cycle alone (data events and the clock do not touch
\* it), with an armed timer eventually firing: setTimeout's callback runs
\* unless clearTimeout cancels it.
LiveNext ==
    \/ Start
    \/ Stop
    \/ \E s \in SocketIds : OnConnect(s)
    \/ \E s \in SocketIds, msg \in ErrorMessages : OnError(s, msg)
    \/ \E s \in SocketIds : RemoteEnd(s)
    \/ \E s \in SocketIds : OnClose(s)
    \/ \E t \in TimerIds : TimerFire(t)

LiveSpec ==
    Init /\ [][LiveNext]_vars /\ WF_vars(\E t \in TimerIds : TimerFire(t))

\* ---------------------------------------------------------------- codec runs
\* The client of index.ts, started and connected, with an empty buffer, and
\* a stream the device is about to send.
CodecInit ==
    /\ opt = OptDefault
    /\ sock = 1
    /\ buffer = <<>>
    /\ values = InitialValues(OptDefault.meters)
    /\ connected = TRUE
    /\ lastConnectEpoch = 0
    /\ lastError = NoError
    /\ reconnectTimer = NoTimer
    /\ st = [s \in SocketIds |-> IF s = 1 THEN "open" ELSE "none"]
    /\ written = sendAll([s \in SocketIds |-> <<>>], 1, ConfigureCommands(OptDefault))
    /\ timers = {}
    /\ now = 0
    /\ stream \in Streams
    /\ pos = 0
    /\ decoded = <<>>
    /\ ev = Event("connect", 1, <<>>)
    /\ stopped = FALSE
    /\ discarded = {}
    /\ snap = <<>>
    /\ seen = <<>>
    /\ raised = FALSE
    /\ ClassAlone

\* The next k bytes of the stream arrive as one data event.
Deliver(k) ==
    LET chunk == SubSeq(stream, pos + 1, pos + k)
    IN /\ pos + k <= Len(stream)
       /\ OnData(sock, chunk)
       /\ ev' = Event("data", sock, <<>>)
       /\ pos' = pos + k
       /\ decoded' = decoded \o ParsedPairs(Front(Parts(buffer, chunk)))
       /\ UNCHANGED stream

CodecNext ==
    \/ \E k \in 1..Len(stream) : Deliver(k)
    \/ Tick

CodecSpec == CodecInit /\ [][CodecNext]_vars

\* ---------------------------------------------------------------- snapshot runs
\* A reader calling snapshot() at any time during the life of a client that
\* is started, stopped and restarted, with a frame for 9002 arriving.
SnapChunks ==
    { FrameBytes(C9002, V00012) \o <<CR>> }

SnapInit ==
    /\ \E o \in SnapOptionSets : Constructed(o)
    /\ st = [s \in SocketIds |-> "none"]
    /\ written = [s \in SocketIds |-> <<>>]
    /\ timers = {}
    /\ now = 0
    /\ stream = <<>>
    /\ pos = 0
    /\ decoded = <<>>
    /\ ev = Event("new", NoSock, <<>>)
    /\ stopped = FALSE
    /\ discarded = {}
    /\ snap = <<>>
    /\ seen = <<>>
    /\ raised = FALSE
    /\ ClassAlone

SnapNext ==
    \/ Start
    \/ Stop
    \/ \E s \in SocketIds : OnConnect(s)
    \/ \E s \in SocketIds, chunk \in SnapChunks : SockData(s, chunk)
    \/ \E s \in SocketIds : OnClose(s)
    \/ \E t \in TimerIds : TimerFire(t)
    \/ Tick
    \/ Snapshot

SnapSpec == SnapInit /\ [][SnapNext]_vars

\* ---------------------------------------------------------------- configuration runs
\* The life cycle of clients with other options, with a frame for 9001
\* arriving whole.
ConfigChunks == { FrameBytes(C9001, V32768) \o <<CR>> }

ConfigInit ==
    /\ \E o \in ConfigOptionSets : Constructed(o)
    /\ st = [s \in SocketIds |-> "none"]
    /\ written = [s \in SocketIds |-> <<>>]
    /\ timers = {}
    /\ now = 0
    /\ stream = <<>>
    /\ pos = 0
    /\ decoded = <<>>
    /\ ev = Event("new", NoSock, <<>>)
    /\ stopped = FALSE
    /\ discarded = {}
    /\ snap = <<>>
    /\ seen = <<>>
    /\ raised = FALSE
    /\ ClassAlone

ConfigNext ==
    \/ LiveNext
    \/ \E s \in SocketIds, chunk \in ConfigChunks : SockData(s, chunk)

ConfigSpec == ConfigInit /\ [][ConfigNext]_vars

\* ---------------------------------------------------------------- line runs
\* Data events of the connected client of index.ts whose terminated segments
\* are frames of a controller no meter has (9003), empty, or white space
\* only, next to frames of the two meters and a frame cut in two.
C9003 == <<"0", "9", "0", "0", "3">>

LineChunks ==
    { FrameBytes(C9003, V00012) \o <<CR>>,
      FrameBytes(C9003, V00012) \o <<CR>> \o FrameBytes(C9001, V32768) \o <<CR>>,
      FrameBytes(C9002, V65535) \o <<CR>>,
      <<CR>>,
      <<SP, CR, LF, "C2", "A0", CR, "#", "0", "9">>,
      <<"#", "0", "9", "0", "0">>,
      <<"1", "=">> \o V00012 \o <<CR>> }

LineInit ==
    /\ opt = OptDefault
    /\ sock = 1
    /\ buffer = <<>>
    /\ values = InitialValues(OptDefault.meters)
    /\ connected = TRUE
    /\ lastConnectEpoch = 0
    /\ lastError = NoError
    /\ reconnectTimer = NoTimer
    /\ st = [s \in SocketIds |-> IF s = 1 THEN "open" ELSE "none"]
    /\ written = sendAll([s \in SocketIds |-> <<>>], 1, ConfigureCommands(OptDefault))
    /\ timers = {}
    /\ now = 0
    /\ stream = <<>>
    /\ pos = 0
    /\ decoded = <<>>
    /\ ev = Event("connect", 1, <<>>)
    /\ stopped = FALSE
    /\ discarded = {}
    /\ snap = <<>>
    /\ seen = <<>>
    /\ raised = FALSE
    /\ ClassAlone

LineNext ==
    \/ \E chunk \in LineChunks : SockData(sock, chunk)
    \/ Tick

LineSpec == LineInit /\ [][LineNext]_vars

\* ---------------------------------------------------------------- loader runs
\* The server process: the module is loaded with some configuration in the
\* environment, startMeterClients() runs once, and the network then drives
\* the client it started, if any, with a frame for 9001 arriving whole.
LoaderInit ==
    /\ env \in [DSP_TARGETS_JSON : TargetsJsons, DSP_METER_MAP_JSON : MeterMapJsons]
    /\ meterClients = {}
    /\ pc = "load"
    /\ Constructed(OptNone)
    /\ st = [s \in SocketIds |-> "none"]
    /\ written = [s \in SocketIds |-> <<>>]
    /\ timers = {}
    /\ now = 0
    /\ stream = <<>>
    /\ pos = 0
    /\ decoded = <<>>
    /\ ev = Event("load", NoSock, <<>>)
    /\ stopped = FALSE
    /\ discarded = {}
    /\ snap = <<>>
    /\ seen = <<>>
    /\ raised = FALSE

LoaderNext ==
    \/ startMeterClients
    \/ \E s \in SocketIds : OnConnect(s)
    \/ \E s \in SocketIds, chunk \in ConfigChunks : SockData(s, chunk)
    \/ \E s \in SocketIds, msg \in ErrorMessages : OnError(s, msg)
    \/ \E s \in SocketIds : RemoteEnd(s)
    \/ \E s \in SocketIds : OnClose(s)
    \/ \E t \in TimerIds : TimerFire(t)

LoaderSpec == LoaderInit /\ [][LoaderNext]_vars

\* ---------------------------------------------------------------- claims
\* The five-digit, zero-padded decimal form of n on the wire.
DigitChar(d) == CHOOSE c \in Digits : DigitValue(c) = d
Pad5(n) ==
    <<DigitChar((n \div 10000) % 10), DigitChar((n \div 1000) % 10),
      DigitChar((n \div 100) % 10), DigitChar((n \div 10) % 10),
      DigitChar(n % 10)>>

\* '#' + 5 digits + '=' + 5 digits, and nothing else
IsExactFrame(l) ==
    /\ Len(l) = 12
    /\ l = <<"#">> \o SubSeq(l, 2, 6) \o <<"=">> \o SubSeq(l, 8, 12)
    /\ \A i \in (2..6) \cup (8..12) : l[i] \in Digits

Occurs(sub, text) ==
    \E i \in 1..(Len(text) - Len(sub) + 1) :
        SubSeq(text, i, i + Len(sub) - 1) = sub

\* The bytes a data step delivers.
StepChunk == IF ev'.chunk # <<>> THEN ev'.chunk ELSE SubSeq(stream, pos + 1, pos')

UniqueControllers(meters) ==
    \A i, j \in 1..Len(meters) :
        meters[i].controller = meters[j].controller => i = j

FrameValues == {12, 32768, 65535}

\* C1: when a data event completes a line that is exactly the frame
\* '#CCCCC=VVVVV' of a configured meter's controller (controllers being
\* unique), and that line is the last one the event terminates, then after
\* the event the meter's raw is VVVVV and its lastEpoch is the time of the
\* event; a meter for whose controller the event's text holds no '#CCCCC='
\* keeps its record.
C1_FrameUpdatesMeter ==
    [][ (ev'.type = "data" /\ UniqueControllers(opt.meters)) =>
        \A text \in {buffer \o Utf8Decode(StepChunk)} :
         LET n == Len(text)
         IN \A k \in 1..Len(opt.meters), v \in FrameValues :
             LET m == opt.meters[k]
                 frame == FrameBytes(Pad5(m.controller), Pad5(v)) \o <<CR>>
             IN (/\ n >= 13
                 /\ SubSeq(text, n - 12, n) = frame
                 /\ (n = 13 \/ text[n - 13] = CR))
                => /\ values'[m.id].raw = v
                   /\ values'[m.id].lastEpoch = now
                   /\ \A j \in 1..Len(opt.meters) :
                        ~Occurs(<<"#">> \o Pad5(opt.meters[j].controller) \o <<"=">>, text)
                        => values'[opt.meters[j].id] = values[opt.meters[j].id]
      ]_vars

\* C1 witness: #09002=00012 was processed, time passed, and #09001=32768
\* has just been processed: vu_program has the value and the present time,
\* vu_rec is as the earlier frame left it.
C1_Witness ==
    /\ ev.type = "data"
    /\ stream = FrameBytes(C9002, V00012) \o <<CR>> \o FrameBytes(C9001, V32768) \o <<CR>>
    /\ pos = Len(stream)
    /\ now > 0
    /\ values["vu_program"].raw = 32768
    /\ values["vu_program"].lastEpoch = now
    /\ values["vu_rec"].raw = 12
    /\ values["vu_rec"].lastEpoch < now

\* C2: a data event changes a meter's record only if one of the lines it
\* terminates is, after trimming, exactly '#' + the meter's controller in 5
\* digits + '=' + 5 digits; every other line is dropped, and no data event
\* changes connected or lastError.
C2_MalformedDropped ==
    [][ ev'.type = "data" =>
        \A lines \in {Front(Parts(buffer, StepChunk))} :
           /\ connected' = connected
           /\ lastError' = lastError
           /\ \A id \in DOMAIN values :
                values'[id] # values[id] =>
                  \E i \in 1..Len(lines) :
                     /\ IsExactFrame(Trim(lines[i]))
                     /\ SubSeq(Trim(lines[i]), 2, 6) = Pad5(values[id].controller)
      ]_vars

\* C2 witness: 32768 was stored, time passed, and the 4-digit line
\* #09001=3276 has just been processed: value and timestamp are retained.
C2_Witness ==
    /\ ev.type = "data"
    /\ stream = FrameBytes(C9001, V32768) \o <<CR>>
                \o FrameBytes(C9001, <<"3", "2", "7", "6">>) \o <<CR>>
    /\ pos = Len(stream)
    /\ buffer = <<>>
    /\ values["vu_program"].raw = 32768
    /\ values["vu_program"].lastEpoch # Null
    /\ values["vu_program"].lastEpoch < now

\* C3: once the whole stream has been delivered, in whatever chunks, the
\* decoded pairs, the meters' raw values and the buffer are those of the
\* stream delivered as a single data event.
C3_FragmentationInvariance ==
    pos = Len(stream) =>
        LET whole == Parts(<<>>, stream)
            one == ProcessLines(InitialValues(opt.meters), opt.meters,
                                Front(whole), now)
        IN /\ decoded = ParsedPairs(Front(whole))
           /\ buffer = whole[Len(whole)]
           /\ \A id \in DOMAIN values : values[id].raw = one[id].raw

\* The configure sequence with every command in it.
FullConfigure(o) ==
    << [m |-> "SQ", a |-> <<1>>], [m |-> "EH", a |-> <<0>>],
       [m |-> "PU", a |-> <<1>>], [m |-> "PUI", a |-> <<o.pushIntervalMs>>],
       [m |-> "PUT", a |-> <<o.pushThresholdMeter, o.pushThresholdMeter>>] >>
    \o [k \in 1..Len(o.meters) |-> [m |-> "PUE", a |-> <<o.meters[k].controller>>]]

Commands(w) == [k \in 1..Len(w) |-> w[k].cmd]

\* C4 as claimed: once the current socket has had its connect event, what
\* was written to it is SQ 1, EH 0, PU 1, PUI <ms>, PUT <t> <t> and one PUE
\* per meter, in this order, whatever the options.
C4_FullSequenceAlways ==
    \A s \in SocketIds :
        st[s] = "open" => Commands(written[s]) = FullConfigure(opt)

\* Whether the options have command c sent.
IsSent(o, c) ==
    CASE c.m = "SQ" -> o.quietMode
      [] c.m = "EH" -> ~o.echoMode
      [] c.m = "PUI" -> o.pushIntervalMs # 0
      [] c.m = "PUT" -> o.hasThreshold
      [] OTHER -> TRUE

\* C4 amended: the sequence is the claimed one with the optional commands
\* left out when their option is off: SQ 1 only if quietMode, EH 0 only if
\* echoMode is false, PUI only if pushIntervalMs is not zero, PUT only if a
\* threshold is configured. It is written once, by the connect event: a
\* connecting socket has nothing written, an open one exactly the sequence,
\* so every write precedes any data event of the socket.
C4_ConfigureSequence ==
    \A s \in SocketIds :
        /\ st[s] = "connecting" => written[s] = <<>>
        /\ st[s] = "open" =>
             /\ Commands(written[s]) = SelectSeq(FullConfigure(opt), LAMBDA c : IsSent(opt, c))
             /\ \A k \in 1..Len(written[s]) : written[s][k].term = CR

\* C4 witness: a reconnection (a frame was decoded on an earlier connection)
\* whose socket has just had its connect event, with options that leave
\* commands out.
C4_Witness ==
    /\ ev.type = "connect"
    /\ opt = OptBare
    /\ values["vu_program"].raw # Null
    /\ st[sock] = "open"
    /\ Len(written[sock]) = 2

SocketEvents == {"connect", "data", "error", "close"}

\* C5: right after the close event of the current socket is handled,
\* connected is false and a reconnect timer is armed and held in
\* reconnectTimer.
C5_CloseSchedulesReconnect ==
    [][ (ev'.type = "close" /\ ev'.s = sock) =>
        /\ connected' = FALSE
        /\ reconnectTimer' # NoTimer
        /\ reconnectTimer' \in timers'
      ]_vars

\* C5 witness: the current socket, once connected, has just closed.
C5_Witness ==
    /\ ev.type = "close"
    /\ ev.s = sock
    /\ lastConnectEpoch # Null
    /\ ~connected
    /\ reconnectTimer \in timers

\* C6: at most one reconnect timer is pending in every state; an error event
\* arms no timer and opens no socket; a close event opens no socket and
\* leaves one timer armed; the timer's expiry opens exactly one socket and
\* leaves no timer armed. So an error followed by a close of the same socket
\* leads to one new socket.
C6_OneReconnectPerFailure ==
    /\ [](Cardinality(timers) <= 1)
    /\ [][ /\ ev'.type = "error" =>
                /\ timers' = timers
                /\ LiveSockets(st') \subseteq LiveSockets(st)
           /\ ev'.type = "close" =>
                /\ Cardinality(timers') = 1
                /\ timers \subseteq timers'
                /\ LiveSockets(st') \subseteq LiveSockets(st)
           /\ ev'.type = "timer" =>
                /\ timers' = {}
                /\ LiveSockets(st') = {sock'}
                /\ st'[sock'] = "connecting"
         ]_vars

\* C6 witness: after an error and the close of the same socket, the timer
\* has fired and one socket is connecting.
C6_Witness ==
    /\ ev.type = "timer"
    /\ lastError # NoError
    /\ timers = {}
    /\ LiveSockets(st) = {sock}
    /\ \A s \in SocketIds \ {sock} : st[s] = "none"

\* C7: no event of a socket that stop() discarded changes the client's state.
C7_DiscardedSocketSilent ==
    [][ (ev'.type \in SocketEvents /\ ev'.s \in discarded) =>
        UNCHANGED clientVars ]_vars

\* C8: from stop() until start() no reconnect timer is pending and no socket
\* is opened.
C8_StopEndsRetry ==
    /\ [](stopped => (timers = {} /\ reconnectTimer = NoTimer))
    /\ [][ (stopped /\ stopped') => LiveSockets(st') \subseteq LiveSockets(st) ]_vars

\* The close of the current socket has just been handled, stop() not called.
AwaitingReconnect == ev.type = "close" /\ ev.s = sock /\ ~stopped

\* C9: whenever the close of the current socket has been handled and stop()
\* has not been called since start(), eventually the client's socket is a new
\* live one, or stop() is called.
C9_RetryForever ==
    AwaitingReconnect ~> (stopped \/ (sock # NoSock /\ st[sock] \in Live))

\* C9 witness: a connection attempt failed without ever connecting, its
\* close was handled, and the timer has opened the next socket.
C9_Witness ==
    /\ ev.type = "timer"
    /\ ~stopped
    /\ lastError # NoError
    /\ lastConnectEpoch = Null
    /\ st[sock] = "connecting"

\* C10: a socket discarded by stop() is never live afterwards, so it has no
\* data event; and no data event of such a socket changes a meter's record.
C10_NoDataFromStoppedSocket ==
    /\ [](\A s \in discarded : st[s] \notin Live)
    /\ [][ (ev'.type = "data" /\ ev'.s \in discarded) => values' = values ]_vars

\* C10 witness: stop() discarded a socket that had delivered a frame, start()
\* opened a new one, and the new one has just delivered part of a frame while
\* the old one still awaits its close event.
C10_Witness ==
    /\ discarded # {}
    /\ ~stopped
    /\ ev.type = "data"
    /\ ev.s = sock
    /\ sock \notin discarded
    /\ buffer # <<>>
    /\ \E id \in DOMAIN values : values[id].raw # Null

\* C11: start() opens exactly one socket, the only live one; and while the
\* client is connected, neither an event of a socket that stop() discarded
\* nor the expiry of a timer marks it disconnected, replaces its socket or
\* destroys it.
C11_CleanRestart ==
    /\ [][ (ev'.type = "start" /\ Len(opt.meters) > 0) =>
             (LiveSockets(st') = {sock'} /\ st'[sock'] = "connecting") ]_vars
    /\ [][ (/\ connected
            /\ \/ ev'.type = "timer"
               \/ ev'.type \in SocketEvents /\ ev'.s \in discarded) =>
             (connected' /\ sock' = sock /\ st'[sock] = "open") ]_vars

\* C12: start() called while the client's socket is connecting or connected
\* leaves one live socket and no timer; and the close event of a socket that
\* connect() replaced (neither the current one nor one stop() was called on)
\* schedules no reconnect and leaves connected as it is.
C12_StartIdempotent ==
    /\ [][ (ev'.type = "start" /\ sock # NoSock /\ st[sock] \in Live) =>
             (LiveSockets(st') = {sock'} /\ timers' = {}) ]_vars
    /\ [][ (ev'.type = "close" /\ ev'.s # sock /\ ev'.s \notin discarded) =>
             (/\ timers' = timers
              /\ reconnectTimer' = reconnectTimer
              /\ connected' = connected) ]_vars

\* C13: a client constructed with an empty meter list has no socket and no
\* timer in any state, whatever calls of start(), stop() and snapshot() were
\* made, and snapshot() returns connected = false and meters = [].
C13_EmptyListInert ==
    Len(opt.meters) = 0 =>
        /\ sock = NoSock
        /\ \A s \in SocketIds : st[s] = "none"
        /\ timers = {}
        /\ reconnectTimer = NoTimer
        /\ snapshot.connected = FALSE
        /\ snapshot.meters = <<>>
        /\ snap = <<>>

\* C13 witness: start() has just returned on a client with no meters, some
\* time after construction.
C13_Witness ==
    /\ opt = OptEmpty
    /\ ev.type = "start"
    /\ now > 0

\* C14: in every state at most one socket is live (created, not destroyed),
\* and it is the client's current socket; a call of connect(), from start()
\* or from the timer, leaves the previous socket destroyed.
C14_OneLiveSocket ==
    /\ [](Cardinality(LiveSockets(st)) <= 1 /\ LiveSockets(st) \subseteq {sock})
    /\ [][ (ev'.type \in {"start", "timer"} /\ sock # NoSock /\ sock' # sock) =>
             st'[sock] \notin Live ]_vars

\* C14 witness: start() was called while a socket that never connected and
\* never failed was live: that socket is destroyed, awaiting its close
\* event, and the new one is the only live socket.
C14_Witness ==
    /\ ev.type = "start"
    /\ lastError = NoError
    /\ lastConnectEpoch = Null
    /\ discarded = {}
    /\ sock # NoSock
    /\ st[sock] = "connecting"
    /\ \E s \in SocketIds \ {sock} : st[s] = "closing"

\* C15: the records of a snapshot a reader holds read as they did when
\* snapshot() returned: raw and lastEpoch of each are unchanged by whatever
\* the client does afterwards.
C15_SnapshotImmutable ==
    \A k \in 1..Len(snap) :
        /\ values[snap[k]].raw = seen[k].raw
        /\ values[snap[k]].lastEpoch = seen[k].lastEpoch

DistinctIds(meters) ==
    \A i, j \in 1..Len(meters) : meters[i].id = meters[j].id => i = j

\* C16: when the definitions' ids are pairwise distinct, snapshot().meters
\* has one record per definition, the k-th being that of the k-th definition
\* given to the constructor, in every state.
C16_DefinitionOrder ==
    DistinctIds(opt.meters) =>
        /\ Len(snapshot.meters) = Len(opt.meters)
        /\ \A k \in 1..Len(opt.meters) :
              /\ values[snapshot.meters[k]].id = opt.meters[k].id
              /\ values[snapshot.meters[k]].controller = opt.meters[k].controller

\* C17: every meter's raw is null or an integer in 0..65535, in every state.
C17_RawInRange ==
    \A id \in DOMAIN values :
        values[id].raw = Null \/ values[id].raw \in 0..65535

\* C18: only a data event changes a meter's record, and then only the
\* record of a meter for whose controller the event terminates an exact
\* frame; connect, error, end and close events, timer expiries, stop(),
\* start() and the clock leave every record as it is; and a raw that is
\* known is never unknown afterwards.
C18_ValuesSurvive ==
    [][ /\ ev'.type # "data" => values' = values
        /\ \A id \in DOMAIN values :
              values[id].raw # Null => values'[id].raw # Null
        /\ ev'.type = "data" =>
              \A lines \in {Front(Parts(buffer, ev'.chunk))} :
                 \A id \in DOMAIN values :
                    values'[id] # values[id] =>
                      \E i \in 1..Len(lines) :
                         /\ IsExactFrame(Trim(lines[i]))
                         /\ DecimalValue(SubSeq(Trim(lines[i]), 2, 6)) = values[id].controller
      ]_vars

\* C18 witness: a value stored on an earlier connection is still there,
\* with its earlier timestamp, when a later connection is established.
C18_Witness ==
    /\ ev.type = "connect"
    /\ \E id \in DOMAIN values :
          /\ values[id].raw # Null
          /\ values[id].lastEpoch < lastConnectEpoch

\* C19: after every connect event lastError is null, and a close event
\* leaves lastError as it was.
C19_LastErrorLifetime ==
    [][ /\ ev'.type = "connect" => lastError' = NoError
        /\ ev'.type = "close" => lastError' = lastError
      ]_vars

\* C19 witness: the current socket failed with an error after having been
\* connected and has just closed: the error's message is still held.
C19_Witness ==
    /\ ev.type = "close"
    /\ ev.s = sock
    /\ lastConnectEpoch # Null
    /\ lastError \in ErrorMessages
    /\ reconnectTimer # NoTimer

\* C20: an error event sets lastError to the error's message and changes
\* nothing else of the client: connected, the reconnect timer, the socket
\* reference, the buffer, the meter records and lastConnectEpoch stay, no
\* timer is armed and no socket is opened.
C20_ErrorOnlyRecords ==
    [][ ev'.type = "error" =>
          /\ lastError' \in ErrorMessages
          /\ UNCHANGED <<connected, reconnectTimer, sock, buffer, values,
                         lastConnectEpoch, timers>>
          /\ LiveSockets(st') \subseteq LiveSockets(st)
      ]_vars

\* C20 witness: the connected socket, with a stored value and an
\* unterminated remainder in the buffer, has just had an error.
C20_Witness ==
    /\ ev.type = "error"
    /\ ev.s = sock
    /\ connected
    /\ lastError \in ErrorMessages
    /\ buffer # <<>>
    /\ \E id \in DOMAIN values : values[id].raw # Null

\* The value of the last terminated line of the byte stream that is, after
\* trimming, an exact frame for controller c; Null when there is none.
LastFrameValue(bytes, c) ==
    LET lines == Front(SplitCR(Utf8Decode(bytes)))
        hits == {i \in 1..Len(lines) :
                    /\ IsExactFrame(Trim(lines[i]))
                    /\ SubSeq(Trim(lines[i]), 2, 6) = Pad5(c)}
    IN IF hits = {} THEN Null
       ELSE LET last == CHOOSE i \in hits : \A j \in hits : j <= i
            IN DecimalValue(SubSeq(Trim(lines[last]), 8, 12))

\* C21: whatever the data events the stream arrived in so far, each meter's
\* raw is the value of the last well-formed frame for its controller in the
\* bytes received so far, and unknown if there was none.
C21_LastFrameWins ==
    \A k \in 1..Len(opt.meters) :
        values[opt.meters[k].id].raw
            = LastFrameValue(SubSeq(stream, 1, pos), opt.meters[k].controller)

\* The streams of 7-bit bytes.
AsciiStream == \A i \in 1..Len(stream) : stream[i] \notin {"C2", "A0"}

\* The same for streams in which no multi-byte character can be cut.
C21_Ascii == AsciiStream => C21_LastFrameWins

\* C22: no call of start() or stop() and no callback ends by an exception,
\* in any state; snapshot() has a result in every state, which shows the
\* connected flag and lastError; and a connection failure shows there only:
\* an error event leaves its message in lastError, the close of the current
\* socket leaves connected false.
C22_NothingRaised ==
    /\ [](~raised)
    /\ [](/\ snapshot.connected = connected
          /\ snapshot.lastError = lastError
          /\ Len(snapshot.meters) = Cardinality(DOMAIN values))
    /\ [][ /\ ev'.type = "error" => lastError' \in ErrorMessages
           /\ (ev'.type = "close" /\ ev'.s = sock) => ~connected'
         ]_vars

\* C22 witness: start() has returned normally after an error of the
\* previous socket, whose close event is still to come.
C22_Witness ==
    /\ ev.type = "start"
    /\ ~raised
    /\ lastError \in ErrorMessages
    /\ sock # NoSock
    /\ st[sock] = "connecting"
    /\ \E s \in SocketIds \ {sock} : st[s] = "closing"

\* C23: when stop() returns, connected is false, there is no socket
\* reference and no timer is pending; and stop() called on a client that
\* has no socket reference, no timer and connected = false (one already
\* stopped, or never started) changes nothing of the client, the sockets or
\* the timers.
C23_StopIdempotent ==
    [][ ev'.type = "stop" =>
          /\ ~connected'
          /\ sock' = NoSock
          /\ reconnectTimer' = NoTimer
          /\ timers' = {}
          /\ (sock = NoSock /\ reconnectTimer = NoTimer /\ ~connected) =>
                (UNCHANGED clientVars /\ st' = st /\ timers' = timers
                 /\ written' = written)
      ]_vars

\* C23 witness: stop() has returned on a client that was connected once and
\* now has no socket left, not even one awaiting its close event, and no
\* timer.
C23_Witness ==
    /\ ev.type = "stop"
    /\ stopped
    /\ lastConnectEpoch # Null
    /\ sock = NoSock
    /\ \A s \in SocketIds : st[s] = "none"
    /\ timers = {}

\* C24: a call of snapshot() leaves the client's fields, the sockets, the
\* timers and what was written as they are, and a second call right after
\* it would return what this one returned.
C24_SnapshotPure ==
    [][ ev'.type = "snapshot" =>
          /\ UNCHANGED <<clientVars, st, timers, written>>
          /\ snapshot' = snapshot
          /\ snap' = snapshot'.meters
      ]_vars

\* C24 witness: snapshot() has returned on a connected client that holds a
\* decoded value.
C24_Witness ==
    /\ ev.type = "snapshot"
    /\ connected
    /\ \E k \in 1..Len(seen) : seen[k].raw # Null

\* C25: every PUT command written carries one value in both arguments, the
\* value is in 0..65535, and it is the configured threshold when that is in
\* the range, 0 when it is below and 65535 when it is above.
C25_ThresholdClamped ==
    \A s \in SocketIds : \A k \in 1..Len(written[s]) :
        written[s][k].cmd.m = "PUT" =>
            LET a == written[s][k].cmd.a
                t == opt.pushThresholdMeter
            IN /\ Len(a) = 2
               /\ a[1] = a[2]
               /\ a[1] \in 0..65535
               /\ t \in 0..65535 => a[1] = t
               /\ (t # NaN /\ t < 0) => a[1] = 0
               /\ (t # NaN /\ t > 65535) => a[1] = 65535

\* C26: every string written is a command followed by one carriage return:
\* it ends with CR and has no other CR and no linefeed in it.
C26_OneTerminator ==
    \A s \in SocketIds : \A k \in 1..Len(written[s]) :
        \A w \in {WrittenString(written[s][k])} :
            /\ Len(w) >= 2
            /\ w[Len(w)] = CR
            /\ \A i \in 1..(Len(w) - 1) : w[i] \notin {CR, LF}

\* C26 witness: the configure sequence with a clamped threshold has been
\* written, "PUT 65535 65535" and its terminator among it.
C26_Witness ==
    /\ ev.type = "connect"
    /\ opt = OptThreshold(70000)
    /\ \E k \in 1..Len(written[sock]) :
          WrittenString(written[sock][k])
            = <<"P", "U", "T", SP, "6", "5", "5", "3", "5", SP,
                "6", "5", "5", "3", "5", CR>>

\* C27: with distinct ids, a meter whose controller number a later
\* definition carries too has raw unknown in every state; and a data event
\* that is one exact frame for a controller, on an empty buffer, stores the
\* value and the time in the record of the last definition with that
\* controller and changes no other record.
C27_LastDefinitionWins ==
    /\ [](DistinctIds(opt.meters) =>
            \A k \in 1..Len(opt.meters) :
                (\E j \in (k + 1)..Len(opt.meters) :
                    opt.meters[j].controller = opt.meters[k].controller)
                => values[opt.meters[k].id].raw = Null)
    /\ [][ (ev'.type = "data" /\ buffer = <<>> /\ DistinctIds(opt.meters)) =>
             \A k \in 1..Len(opt.meters), v \in FrameValues :
                (/\ ev'.chunk = FrameBytes(Pad5(opt.meters[k].controller), Pad5(v)) \o <<CR>>
                 /\ \A j \in (k + 1)..Len(opt.meters) :
                       opt.meters[j].controller # opt.meters[k].controller)
                => /\ values'[opt.meters[k].id].raw = v
                   /\ values'[opt.meters[k].id].lastEpoch = now
                   /\ \A id \in DOMAIN values \ {opt.meters[k].id} :
                         values'[id] = values[id]
         ]_vars

\* C27 witness: a frame for the shared controller has just been processed:
\* the last definition's meter has the value, the first one's is unknown.
C27_Witness ==
    /\ ev.type = "data"
    /\ opt = OptDuplicate
    /\ values["vu_last"].raw = 32768
    /\ values["vu_first"].raw = Null

\* C28: the first data event of a connection, one that follows the connect
\* event of its socket at once, is processed as if the buffer were empty:
\* the records and the new buffer are those the chunk alone gives.
C28_NoCrossConnectionFrames ==
    [][ (ev.type = "connect" /\ ev'.type = "data" /\ ev'.s = ev.s) =>
          \A parts \in {Parts(<<>>, ev'.chunk)} :
             /\ values' = ProcessLines(values, opt.meters, Front(parts), now)
             /\ buffer' = parts[Len(parts)]
      ]_vars

\* C29: connected is true only if the current socket has had its connect
\* event and not its close event, and it is true whenever the current
\* socket is established.
C29_ConnectedTruthful ==
    /\ connected => (sock # NoSock /\ st[sock] \in {"open", "closing"})
    /\ (sock # NoSock /\ st[sock] = "open") => connected

\* C30: when the reconnect timer fires, the current socket has had its
\* close event or there is none; and a connecting or connected current
\* socket stops being live only by stop(), by start(), or by the network
\* (an error, or the device ending the connection).
C30_NoSelfTeardown ==
    /\ [][ ev'.type = "timer" => (sock = NoSock \/ st[sock] = "none") ]_vars
    /\ [][ (sock # NoSock /\ st[sock] \in Live /\ st'[sock] \notin Live) =>
             ev'.type \in {"stop", "start", "error", "end"} ]_vars


\* A line that is a frame of a controller no meter is configured with.
Unconfigured(l) ==
    /\ IsExactFrame(l)
    /\ \A k \in 1..Len(opt.meters) :
          SubSeq(l, 2, 6) # Pad5(opt.meters[k].controller)

\* C31: a frame of a controller no meter is configured with changes
\* nothing: no data event changes connected or lastError; a data event in
\* which every frame is of such a controller leaves every meter's record as
\* it was; and when such a frame is followed in the same data event by a
\* frame of a meter's controller (the last one of that controller in the
\* event), the meter has that frame's value and the time of the event.
C31_UnknownControllerIgnored ==
    [][ ev'.type = "data" =>
        \A lines \in {Front(Parts(buffer, StepChunk))} :
           /\ connected' = connected
           /\ lastError' = lastError
           /\ (\A i \in 1..Len(lines) :
                   IsExactFrame(Trim(lines[i])) => Unconfigured(Trim(lines[i])))
              => values' = values
           /\ \A i, j \in 1..Len(lines), k \in 1..Len(opt.meters), v \in FrameValues :
                 (/\ i < j
                  /\ Unconfigured(Trim(lines[i]))
                  /\ Trim(lines[j]) = FrameBytes(Pad5(opt.meters[k].controller), Pad5(v))
                  /\ \A n \in (j + 1)..Len(lines) :
                        SubSeq(Trim(lines[n]), 1, 7)
                            # <<"#">> \o Pad5(opt.meters[k].controller) \o <<"=">>)
                 => /\ values'[opt.meters[k].id].raw = v
                    /\ values'[opt.meters[k].id].lastEpoch = now
      ]_vars

\* C31 witness: the data event '#09003=00012\r#09001=32768\r' has just been
\* handled after time passed: vu_program has the second frame's value and the
\* present time, vu_rec is as an earlier event left it.
C31_Witness ==
    /\ ev.type = "data"
    /\ ev.chunk = FrameBytes(C9003, V00012) \o <<CR>>
                  \o FrameBytes(C9001, V32768) \o <<CR>>
    /\ now > 0
    /\ values["vu_program"].raw = 32768
    /\ values["vu_program"].lastEpoch = now
    /\ values["vu_rec"].raw = 65535
    /\ values["vu_rec"].lastEpoch < now


\* C32: in every reachable state, for every meter, raw is null if and only
\* if lastEpoch is null.
C32_RawAndEpochTogether ==
    \A id \in DOMAIN values :
        (values[id].raw = Null) <=> (values[id].lastEpoch = Null)

\* C32 witness: a data event has just given vu_program a value and a
\* timestamp while vu_rec, for which no frame came, has neither.
C32_Witness ==
    /\ opt = OptDefault
    /\ ev.type = "data"
    /\ values["vu_program"].raw = 12
    /\ values["vu_program"].lastEpoch = now
    /\ values["vu_rec"].raw = Null
    /\ values["vu_rec"].lastEpoch = Null


\* The characters of text after its last carriage return, all of it when it
\* has none.
AfterLastCR(text) ==
    LET at == {i \in 1..Len(text) : text[i] = CR}
    IN IF at = {} THEN text
       ELSE SubSeq(text, (CHOOSE i \in at : \A j \in at : j <= i) + 1, Len(text))

WhiteSpaceOnly(segment) ==
    \A i \in 1..Len(segment) : segment[i] \in WhiteSpace

\* C34: the buffer never holds a carriage return; after a data event it is
\* what the event's characters hold after their last carriage return, or,
\* when they hold none, the previous buffer followed by them; and a data
\* event whose terminated segments are all empty or white space only
\* changes nothing but the buffer.
C34_BufferIsRemainder ==
    /\ [](\A i \in 1..Len(buffer) : buffer[i] # CR)
    /\ [][ ev'.type = "data" =>
           \A text \in {Utf8Decode(StepChunk)} :
              /\ buffer' = IF \E i \in 1..Len(text) : text[i] = CR
                           THEN AfterLastCR(text)
                           ELSE buffer \o text
              /\ (\A segment \in {Front(Parts(buffer, StepChunk))[n] :
                        n \in 1..(Len(Parts(buffer, StepChunk)) - 1)} :
                      WhiteSpaceOnly(segment))
                 => UNCHANGED <<values, connected, lastError, lastConnectEpoch,
                                sock, reconnectTimer, st, timers, written>>
         ]_vars

\* C34 witness: after a value was stored, the data event ' \r\n<NBSP>\r#09'
\* has just been handled: the buffer is '#09' and the value is still there.
C34_Witness ==
    /\ ev.type = "data"
    /\ ev.chunk = <<SP, CR, LF, "C2", "A0", CR, "#", "0", "9">>
    /\ buffer = <<"#", "0", "9">>
    /\ values["vu_program"].raw = 32768
    /\ values["vu_program"].lastEpoch < now


\* A configuration with a variable unset or not JSON, of the wrong type, or
\* with a property that cannot be made a string or a number, or without a
\* list for the target.
Misconfigured(e) ==
    \/ e.DSP_TARGETS_JSON.t # "array"
    \/ e.DSP_METER_MAP_JSON.t # "object"
    \/ "aec" \notin DOMAIN e.DSP_METER_MAP_JSON.map
    \/ ~e.DSP_METER_MAP_JSON.map["aec"].isArray
    \/ \E k \in DOMAIN e.DSP_METER_MAP_JSON.map :
          \E i \in 1..Len(e.DSP_METER_MAP_JSON.map[k].items) :
             \E x \in {e.DSP_METER_MAP_JSON.map[k].items[i].id,
                       e.DSP_METER_MAP_JSON.map[k].items[i].label,
                       e.DSP_METER_MAP_JSON.map[k].items[i].controller} :
                x.t = "unprintable"

\* An entry as written in the configuration that has an id, a label and a
\* finite controller number.
UsableEntry(m) ==
    /\ \A x \in {m.id, m.label} :
          x.t \in {"number", "object"} \/ (x.t = "string" /\ x.s # "")
    /\ \/ m.controller.t = "number" /\ m.controller.n \notin {NaN, Infinity}
       \/ m.controller.t = "string" /\ m.controller.s \in {"", "9001", " 9002 "}

\* C33: no exception leaves the loader; the definitions of a client that
\* index.ts constructed are at least one and each has a non-empty id, a
\* non-empty label and a finite controller number; while there is no client
\* nothing was started; and once startMeterClients() has run there is no
\* client when the configuration is missing or malformed or when no entry of
\* the target's list is usable.
C33_OnlyValidDefinitions ==
    /\ ~raised
    /\ meterClients # {} =>
          /\ pc = "serving"
          /\ Len(opt.meters) > 0
          /\ \A k \in 1..Len(opt.meters) :
                /\ opt.meters[k].id # ""
                /\ opt.meters[k].label # ""
                /\ opt.meters[k].controller \notin {NaN, Infinity}
    /\ meterClients = {} =>
          /\ sock = NoSock
          /\ \A s \in SocketIds : st[s] = "none"
          /\ timers = {}
    /\ (pc = "serving" /\ Misconfigured(env)) => meterClients = {}
    /\ (/\ pc = "serving"
        /\ ~Misconfigured(env)
        /\ \A i \in 1..Len(env.DSP_METER_MAP_JSON.map["aec"].items) :
              ~UsableEntry(env.DSP_METER_MAP_JSON.map["aec"].items[i]))
       => meterClients = {}

\* C33 witness: of a list with a null entry, an entry with a numeric id and
\* a controller given as a string, and entries without label or with a
\* missing, textual, infinite or object controller, one definition reached
\* the client, which is now connected.
C33_Witness ==
    /\ pc = "serving"
    /\ env.DSP_METER_MAP_JSON = MapMixed
    /\ meterClients = {"aec"}
    /\ opt.meters = <<MeterTen>>
    /\ connected

====
